---- MODULE Spec2Model ----
(***************************************************************************)
(* Train booking API (src/app.py): a Flask application with four routes    *)
(* over one MySQL table, `bookings`.  The model holds the store (the       *)
(* table, its AUTO_INCREMENT counter, its clock of whole seconds, whether  *)
(* it accepts connections), the import-time call of create_table, and a    *)
(* fixed set of WSGI workers, each serving one request at a time in the    *)
(* steps at which the handler touches the store: connect, execute, commit, *)
(* close.                                                                  *)
(*                                                                         *)
(* Text is a sequence of one-character strings, so that join, split and    *)
(* int() are computed character by character.                              *)
(***************************************************************************)
EXTENDS Integers, Sequences, FiniteSets, TLC

\* ------------------------------------------------------------------ bounds

\* Rows the table may come to hold (AUTO_INCREMENT values handed out).
MaxRows == 2
\* The seat round trip is checked on lists of at most MaxSeats seats ...
MaxSeats == 3
\* ... of at most MaxSeatLen characters each.
MaxSeatLen == 2
\* Required keys a payload of the model may lack (besides the empty object).
MaxMissing == 2

Workers == {"w1", "w2"}

\* ------------------------------------------------------------- JSON values

Digits == <<"0", "1", "2">>
SeatChars == {"A", ","}

JNull == [t |-> "null", n |-> 0, s |-> <<>>, l |-> <<>>]
JInt(n) == [t |-> "int", n |-> n, s |-> <<>>, l |-> <<>>]
JStr(s) == [t |-> "str", n |-> 0, s |-> s, l |-> <<>>]
JList(l) == [t |-> "list", n |-> 0, s |-> <<>>, l |-> l]

\* Python truthiness of a JSON value: None, 0, "" and [] are falsy.
Truthy(v) ==
    CASE v.t = "null" -> FALSE
      [] v.t = "int" -> v.n # 0
      [] v.t = "str" -> v.s # <<>>
      [] v.t = "list" -> v.l # <<>>

\* ------------------------------------------------------- seat list encoding

RECURSIVE JoinFrom(_, _)
JoinFrom(seats, i) ==
    IF i > Len(seats) THEN <<>>
    ELSE IF i = Len(seats) THEN seats[i]
    ELSE seats[i] \o <<",">> \o JoinFrom(seats, i + 1)

\* ",".join(map(str, seats)) on a list of strings.
Join(seats) == JoinFrom(seats, 1)

\* seats_str of add_booking: the join, or "" for a falsy value.
SeatsStr(v) == IF Truthy(v) THEN Join(v.l) ELSE <<>>

RECURSIVE SplitFrom(_, _, _)
SplitFrom(text, i, cur) ==
    IF i > Len(text) THEN <<cur>>
    ELSE IF text[i] = "," THEN <<cur>> \o SplitFrom(text, i + 1, <<>>)
    ELSE SplitFrom(text, i + 1, Append(cur, text[i]))

\* text.split(',') of Python: always at least one piece.
Split(text) == SplitFrom(text, 1, <<>>)

\* selected_seats of a listed row: the split, or [] for the empty text.
\* (Variant: the split without the guard, so that "" lists as [""].)
NoGuardSeatsList(text) == Split(text)
SeatsList(text) == IF text # <<>> THEN Split(text) ELSE <<>>

\* ------------------------------------------------------------ int() of Python

RECURSIVE DigitIndex(_, _)
DigitIndex(c, i) ==
    IF i > Len(Digits) THEN 0
    ELSE IF Digits[i] = c THEN i
    ELSE DigitIndex(c, i + 1)

IsDigit(c) == DigitIndex(c, 1) # 0

RECURSIVE ParseDigits(_, _, _)
ParseDigits(text, i, acc) ==
    IF i > Len(text) THEN acc
    ELSE ParseDigits(text, i + 1, acc * 10 + (DigitIndex(text[i], 1) - 1))

\* (Variant: a lenient parse that yields 0 where int() raises.)
LenientIntCoerce(v) ==
    CASE v.t = "int" -> [ok |-> TRUE, n |-> v.n, exc |-> "none"]
      [] OTHER -> [ok |-> TRUE, n |-> 0, exc |-> "none"]

\* int(data["no_of_passengers"]): an int is itself, a string of digits is
\* parsed, any other string raises ValueError, None and lists raise TypeError.
IntCoerce(v) ==
    CASE v.t = "int" -> [ok |-> TRUE, n |-> v.n, exc |-> "none"]
      [] v.t = "str" ->
            IF v.s # <<>> /\ \A i \in 1..Len(v.s) : IsDigit(v.s[i])
            THEN [ok |-> TRUE, n |-> ParseDigits(v.s, 1, 0), exc |-> "none"]
            ELSE [ok |-> FALSE, n |-> 0, exc |-> "ValueError"]
      [] OTHER -> [ok |-> FALSE, n |-> 0, exc |-> "TypeError"]

\* ---------------------------------------------------------------- payloads

RequiredFields ==
    <<"name", "phone_no", "from_station", "to_station", "travel_date",
      "travel_time", "no_of_passengers", "class", "selected_seats">>

Fields == {RequiredFields[i] : i \in 1..Len(RequiredFields)}

\* The columns declared NOT NULL that take a payload value as it is.
TextFields == Fields \ {"no_of_passengers", "selected_seats"}

\* A payload with every key present and every value of its column's type.
ExamplePayload ==
    [f \in Fields |->
        CASE f = "no_of_passengers" -> JInt(2)
          [] f = "selected_seats" -> JList(<< <<"A", "1">>, <<"A", "2">> >>)
          [] OTHER -> JStr(<<"A">>)]

\* Every key present with a null value.
NullPayload == [f \in Fields |-> JNull]

NameValues == {JStr(<<"A">>), JNull}

CountValues == {JInt(2), JStr(<<"2">>), JStr(<<"A">>), JNull}

SeatValues ==
    {JList(<< <<"A", "1">>, <<"A", "2">> >>), JList(<< <<"A", "1">> >>),
     JList(<<>>), JList(<< <<>> >>), JList(<< <<"A", ",", "1">> >>), JNull}

\* Payloads holding all nine keys: the example with one value replaced.
FullPayloads ==
    {[ExamplePayload EXCEPT !["name"] = nm] : nm \in NameValues}
        \cup {[ExamplePayload EXCEPT !["no_of_passengers"] = c] : c \in CountValues}
        \cup {[ExamplePayload EXCEPT !["selected_seats"] = st] : st \in SeatValues}

Restrict(data, keys) == [f \in keys |-> data[f]]

MissingSets ==
    {m \in SUBSET Fields : m = Fields \/ (m # {} /\ Cardinality(m) <= MaxMissing)}

\* Payloads lacking at least one key; the keys present hold example values
\* or nulls.
PartialPayloads ==
    {Restrict(base, Fields \ m) : base \in {ExamplePayload, NullPayload},
                                  m \in MissingSets}

\* The payloads of the one-worker specification: every complete payload of
\* the model, and one that lacks a key.
Payloads == FullPayloads \cup {Restrict(ExamplePayload, Fields \ {"class"})}

\* The payloads of the validation specification: every partial payload of
\* the model, and two complete ones.
ValidationPayloads == PartialPayloads \cup {ExamplePayload, NullPayload}

\* The payloads two concurrent workers choose from.
ConcPayloads ==
    {ExamplePayload,
     [ExamplePayload EXCEPT !["no_of_passengers"] = JStr(<<"A">>)],
     [ExamplePayload EXCEPT !["name"] = JNull],
     Restrict(ExamplePayload, Fields \ {"class"})}

NoData == Restrict(NullPayload, {})

\* The loop of add_booking over required_fields: the index of the first key
\* that is not in the payload, 0 when none is missing.
\* (Variant: the loop run from the last key to the first.)
LastMissing(data) ==
    LET miss == {i \in 1..Len(RequiredFields) : RequiredFields[i] \notin DOMAIN data}
    IN IF miss = {} THEN 0 ELSE CHOOSE i \in miss : \A j \in miss : j <= i
FirstMissing(data) ==
    LET miss == {i \in 1..Len(RequiredFields) : RequiredFields[i] \notin DOMAIN data}
    IN IF miss = {} THEN 0 ELSE CHOOSE i \in miss : \A j \in miss : i <= j

\* ------------------------------------------------------------------- state

VARIABLES
    storeUp,      \* the store accepts connections
    tableExists,  \* the bookings table exists in the store
    rows,         \* the committed rows of bookings, in commit order
    nextId,       \* the table's AUTO_INCREMENT counter
    clock,        \* the store's CURRENT_TIMESTAMP: the seconds with an insert, counted
    openConns,    \* connections opened by this process and not yet closed
    boot,         \* where the import-time call of create_table stands
    bootLog,      \* what create_table and its get_db_connection printed
    pc,           \* per worker: where its handler stands
    req,          \* per worker: the request it serves
    tx,           \* per worker: the row inserted and not yet committed
    attempts,     \* per worker: connections attempted for this request
    resp,         \* per worker: the response of the handler
    issued,       \* the 201 responses so far: booking_id and payload
    rtPc, rtIn, rtText, rtOut   \* the seat round trip on its own

vars ==
    <<storeUp, tableExists, rows, nextId, clock, openConns, boot, bootLog,
      pc, req, tx, attempts, resp, issued, rtPc, rtIn, rtText, rtOut>>

storeVars == <<storeUp, tableExists, rows, nextId, clock>>
bootVars == <<boot, bootLog>>
workerVars == <<pc, req, tx, attempts, resp>>
rtVars == <<rtPc, rtIn, rtText, rtOut>>

NoReq == [kind |-> "none", data |-> NoData]

Resp(status, tag, field, id, data, bookings) ==
    [status |-> status, tag |-> tag, field |-> field, id |-> id,
     data |-> data, bookings |-> bookings]

NoResp == Resp(0, "none", "", 0, NoData, <<>>)

\* The seat lists of the round trip: at most MaxSeats seats of at most
\* MaxSeatLen characters.
SeatStrings == UNION {[1..n -> SeatChars] : n \in 0..MaxSeatLen}
SeatLists == UNION {[1..n -> SeatStrings] : n \in 0..MaxSeats}

Init ==
    /\ storeUp \in BOOLEAN
    /\ tableExists \in BOOLEAN
    /\ rows = <<>>
    /\ nextId = 1
    /\ clock = 0
    /\ openConns = 0
    /\ boot = "start"
    /\ bootLog = {}
    /\ pc = [w \in Workers |-> "idle"]
    /\ req = [w \in Workers |-> NoReq]
    /\ tx = [w \in Workers |-> <<>>]
    /\ attempts = [w \in Workers |-> 0]
    /\ resp = [w \in Workers |-> NoResp]
    /\ issued = <<>>
    /\ rtPc = "off"
    /\ rtIn = <<>>
    /\ rtText = <<>>
    /\ rtOut = <<>>

\* ------------------------------------------------------------------- store

\* get_db_connection: a connection when the store accepts one, None (after
\* printing the error) when mysql.connector.connect raises.
GetDbConnection == storeUp

\* (Variant: a table whose columns are all nullable.)
AcceptsNull(data) == tableExists

\* The INSERT of add_booking is accepted when the table exists and no
\* NOT NULL column is given NULL; selected_seats is the one nullable column.
StoreAccepts(data) ==
    /\ tableExists
    /\ \A f \in TextFields : data[f] # JNull

\* (Variant: the id taken as one more than the number of committed rows.)
NewRowCountId(data, count, seats) ==
    [id |-> Len(rows) + 1,
     created_at |-> clock,
     col |-> [f \in Fields |->
                CASE f = "no_of_passengers" -> JInt(count)
                  [] f = "selected_seats" -> JStr(seats)
                  [] OTHER -> data[f]]]

\* The row the INSERT makes: the store assigns id and created_at.
NewRow(data, count, seats) ==
    [id |-> nextId,
     created_at |-> clock,
     col |-> [f \in Fields |->
                CASE f = "no_of_passengers" -> JInt(count)
                  [] f = "selected_seats" -> JStr(seats)
                  [] OTHER -> data[f]]]

Perms(n) == {p \in [1..n -> 1..n] : \A i, j \in 1..n : i # j => p[i] # p[j]}

\* (Variant: the SELECT without its ORDER BY.)
Unordered(rs) == {[i \in 1..Len(rs) |-> rs[p[i]]] : p \in Perms(Len(rs))}

\* SELECT * FROM bookings ORDER BY created_at DESC: every order of the rows
\* in which created_at never increases; rows of one second come in any order.
OrderByCreatedAtDesc(rs) ==
    {[i \in 1..Len(rs) |-> rs[p[i]]] :
        p \in {q \in Perms(Len(rs)) :
                 \A i, j \in 1..Len(rs) :
                    i < j => rs[q[i]].created_at >= rs[q[j]].created_at}}

\* (Variant: the rows returned as fetched, selected_seats left as text.)
ListedRaw(row) == row

\* The loop of get_bookings over the fetched rows.
Listed(row) ==
    [row EXCEPT !.col["selected_seats"] = JList(SeatsList(@.s))]

\* ------------------------------------------------------- startup: create_table

MsgConnFailed == "Database connection failed"
MsgCreateError == "Error creating table"
MsgCreated == "Table created successfully or already exists"

\* conn = get_db_connection(); cursor = conn.cursor().  With conn None the
\* second statement raises AttributeError, which `except mysql.connector.Error`
\* does not catch: the finally block closes nothing and the exception leaves
\* create_table, at import time.
CreateTableConnect ==
    /\ boot = "start"
    /\ IF GetDbConnection
       THEN /\ openConns' = openConns + 1
            /\ boot' = "create"
            /\ bootLog' = bootLog
       ELSE /\ openConns' = openConns
            /\ boot' = "crashed"
            /\ bootLog' = bootLog \cup {MsgConnFailed}
    /\ UNCHANGED <<storeVars, workerVars, issued, rtVars>>

\* cursor.execute(CREATE TABLE IF NOT EXISTS ...); conn.commit(), or the
\* except branch when the store rejects the statement.
CreateTableExecute ==
    /\ boot = "create"
    /\ \E ok \in BOOLEAN :
          IF ok
          THEN /\ tableExists' = TRUE
               /\ bootLog' = bootLog \cup {MsgCreated}
          ELSE /\ tableExists' = tableExists
               /\ bootLog' = bootLog \cup {MsgCreateError}
    /\ boot' = "finally"
    /\ UNCHANGED <<storeUp, rows, nextId, clock, openConns, workerVars, issued, rtVars>>

\* The finally block of create_table with a connection open.
CreateTableFinally ==
    /\ boot = "finally"
    /\ openConns' = openConns - 1
    /\ boot' = "serving"
    /\ UNCHANGED <<storeVars, bootLog, workerVars, issued, rtVars>>

\* ---------------------------------------------------------------- handlers

Serving(w) == boot = "serving" /\ pc[w] = "idle"

\* AUTO_INCREMENT values handed out, and those the requests in flight may take.
IdsClaimed == (nextId - 1) + Cardinality({v \in Workers : pc[v] = "book_try"})

\* (Variant: the required-field loop moved inside the try block, after
\* get_db_connection.)
ConnectThenValidate(w, data) ==
    /\ Serving(w)
    /\ req' = [req EXCEPT ![w] = [kind |-> "book", data |-> data]]
    /\ attempts' = [attempts EXCEPT ![w] = @ + 1]
    /\ LET m == FirstMissing(data) IN
       IF ~GetDbConnection
       THEN /\ openConns' = openConns
            /\ pc' = [pc EXCEPT ![w] = "done"]
            /\ resp' = [resp EXCEPT ![w] =
                          Resp(500, "connfail", "", 0, NoData, <<>>)]
       ELSE /\ openConns' = openConns + 1
            /\ IF m # 0
               THEN /\ resp' = [resp EXCEPT ![w] =
                                  Resp(400, "missing", RequiredFields[m], 0, NoData, <<>>)]
                    /\ pc' = [pc EXCEPT ![w] = "finally"]
               ELSE /\ IdsClaimed < MaxRows
                    /\ pc' = [pc EXCEPT ![w] = "book_try"]
                    /\ resp' = resp
    /\ UNCHANGED <<storeVars, bootVars, tx, issued, rtVars>>

\* POST /book up to its first store access: the required-field loop, then
\* get_db_connection.
BookBegin(w, data) ==
    /\ Serving(w)
    /\ req' = [req EXCEPT ![w] = [kind |-> "book", data |-> data]]
    /\ LET m == FirstMissing(data) IN
       IF m # 0
       THEN /\ resp' = [resp EXCEPT ![w] =
                          Resp(400, "missing", RequiredFields[m], 0, NoData, <<>>)]
            /\ pc' = [pc EXCEPT ![w] = "done"]
            /\ UNCHANGED <<attempts, openConns>>
       ELSE /\ IdsClaimed < MaxRows
            /\ attempts' = [attempts EXCEPT ![w] = @ + 1]
            /\ IF GetDbConnection
               THEN /\ openConns' = openConns + 1
                    /\ pc' = [pc EXCEPT ![w] = "book_try"]
                    /\ resp' = resp
               ELSE /\ openConns' = openConns
                    /\ pc' = [pc EXCEPT ![w] = "done"]
                    /\ resp' = [resp EXCEPT ![w] =
                                  Resp(500, "connfail", "", 0, NoData, <<>>)]
    /\ UNCHANGED <<storeVars, bootVars, tx, issued, rtVars>>

\* The body of the try block up to cursor.execute: seats_str, then the values
\* tuple with int(data["no_of_passengers"]), then the INSERT.  An exception of
\* int() is no mysql.connector.Error: it is not caught, and leaves the handler
\* after the finally block.
BookExecute(w) ==
    /\ pc[w] = "book_try"
    /\ LET data == req[w].data
           seats == SeatsStr(data["selected_seats"])
           count == IntCoerce(data["no_of_passengers"])
       IN IF ~count.ok
          THEN /\ resp' = [resp EXCEPT ![w] =
                             Resp(500, "exception", count.exc, 0, NoData, <<>>)]
               /\ pc' = [pc EXCEPT ![w] = "finally"]
               /\ UNCHANGED <<tx, nextId>>
          ELSE \E ok \in BOOLEAN :
                 IF ok /\ StoreAccepts(data)
                 THEN /\ tx' = [tx EXCEPT ![w] = <<NewRow(data, count.n, seats)>>]
                      /\ nextId' = nextId + 1
                      /\ pc' = [pc EXCEPT ![w] = "book_commit"]
                      /\ resp' = resp
                 ELSE /\ resp' = [resp EXCEPT ![w] =
                                    Resp(500, "dberror", "", 0, NoData, <<>>)]
                      /\ pc' = [pc EXCEPT ![w] = "finally"]
                      /\ UNCHANGED <<tx, nextId>>
    /\ UNCHANGED <<storeUp, tableExists, rows, clock, openConns, bootVars,
                   req, attempts, issued, rtVars>>

\* conn.commit(), booking_id = cursor.lastrowid and the 201 response; a commit
\* the store refuses takes the except branch and leaves no row.
BookCommit(w) ==
    /\ pc[w] = "book_commit"
    /\ \E ok \in BOOLEAN :
          IF ok
          THEN /\ rows' = Append(rows, tx[w][1])
               /\ resp' = [resp EXCEPT ![w] =
                             Resp(201, "created", "", tx[w][1].id, req[w].data, <<>>)]
               /\ issued' = Append(issued, [id |-> tx[w][1].id, data |-> req[w].data])
          ELSE /\ rows' = rows
               /\ resp' = [resp EXCEPT ![w] =
                             Resp(500, "dberror", "", 0, NoData, <<>>)]
               /\ issued' = issued
    /\ tx' = [tx EXCEPT ![w] = <<>>]
    /\ pc' = [pc EXCEPT ![w] = "finally"]
    /\ UNCHANGED <<storeUp, tableExists, nextId, clock, openConns, bootVars,
                   req, attempts, rtVars>>

\* GET /bookings up to its first store access.
ListBegin(w) ==
    /\ Serving(w)
    /\ req' = [req EXCEPT ![w] = [kind |-> "list", data |-> NoData]]
    /\ attempts' = [attempts EXCEPT ![w] = @ + 1]
    /\ IF GetDbConnection
       THEN /\ openConns' = openConns + 1
            /\ pc' = [pc EXCEPT ![w] = "list_try"]
            /\ resp' = resp
       ELSE /\ openConns' = openConns
            /\ pc' = [pc EXCEPT ![w] = "done"]
            /\ resp' = [resp EXCEPT ![w] =
                          Resp(500, "connfail", "", 0, NoData, <<>>)]
    /\ UNCHANGED <<storeVars, bootVars, tx, issued, rtVars>>

\* The SELECT, the loop that splits selected_seats, and the 200 response.
ListExecute(w) ==
    /\ pc[w] = "list_try"
    /\ \E ok \in BOOLEAN :
          IF ok /\ tableExists
          THEN \E fetched \in OrderByCreatedAtDesc(rows) :
                  resp' = [resp EXCEPT ![w] =
                             Resp(200, "bookings", "", 0, NoData,
                                  [i \in 1..Len(fetched) |-> Listed(fetched[i])])]
          ELSE resp' = [resp EXCEPT ![w] =
                          Resp(500, "dberror", "", 0, NoData, <<>>)]
    /\ pc' = [pc EXCEPT ![w] = "finally"]
    /\ UNCHANGED <<storeVars, openConns, bootVars, req, tx, attempts, issued, rtVars>>

\* GET /health: a connection that is_connected() answers healthy.
HealthCheck(w) ==
    /\ Serving(w)
    /\ req' = [req EXCEPT ![w] = [kind |-> "health", data |-> NoData]]
    /\ attempts' = [attempts EXCEPT ![w] = @ + 1]
    /\ IF GetDbConnection
       THEN /\ openConns' = openConns + 1
            /\ pc' = [pc EXCEPT ![w] = "finally"]
            /\ \E alive \in BOOLEAN :
                  resp' = [resp EXCEPT ![w] =
                             IF alive
                             THEN Resp(200, "healthy", "", 0, NoData, <<>>)
                             ELSE Resp(500, "unhealthy", "", 0, NoData, <<>>)]
       ELSE /\ openConns' = openConns
            /\ pc' = [pc EXCEPT ![w] = "done"]
            /\ resp' = [resp EXCEPT ![w] =
                          Resp(500, "unhealthy", "", 0, NoData, <<>>)]
    /\ UNCHANGED <<storeVars, bootVars, tx, issued, rtVars>>

\* GET /: the static description, no store access.
Home(w) ==
    /\ Serving(w)
    /\ req' = [req EXCEPT ![w] = [kind |-> "home", data |-> NoData]]
    /\ resp' = [resp EXCEPT ![w] = Resp(200, "home", "", 0, NoData, <<>>)]
    /\ pc' = [pc EXCEPT ![w] = "done"]
    /\ UNCHANGED <<storeVars, openConns, bootVars, tx, attempts, issued, rtVars>>

\* (Variant: a handler that returns without closing.)
LeakConnection(w) ==
    /\ pc[w] = "finally"
    /\ pc' = [pc EXCEPT ![w] = "done"]
    /\ UNCHANGED <<storeVars, openConns, bootVars, req, tx, attempts, resp, issued, rtVars>>

\* The finally block of a handler that holds a connection: cursor.close(),
\* conn.close().
Finally(w) ==
    /\ pc[w] = "finally"
    /\ openConns' = openConns - 1
    /\ pc' = [pc EXCEPT ![w] = "done"]
    /\ UNCHANGED <<storeVars, bootVars, req, tx, attempts, resp, issued, rtVars>>

\* The response leaves the worker, which is free for the next request.
Deliver(w) ==
    /\ pc[w] = "done"
    /\ pc' = [pc EXCEPT ![w] = "idle"]
    /\ req' = [req EXCEPT ![w] = NoReq]
    /\ resp' = [resp EXCEPT ![w] = NoResp]
    /\ attempts' = [attempts EXCEPT ![w] = 0]
    /\ UNCHANGED <<storeVars, openConns, bootVars, tx, issued, rtVars>>

\* ------------------------------------------------------------- environment

\* The store becomes unreachable, or reachable again.
StoreFlip ==
    /\ storeUp' = ~storeUp
    /\ UNCHANGED <<tableExists, rows, nextId, clock, openConns, bootVars,
                   workerVars, issued, rtVars>>

\* The store's clock moves on to a later second.  created_at is a TIMESTAMP
\* of whole seconds and only its order is read, so the seconds in which no
\* INSERT ran are not counted.
Tick ==
    /\ \/ \E i \in 1..Len(rows) : rows[i].created_at = clock
       \/ \E w \in Workers : tx[w] # <<>> /\ tx[w][1].created_at = clock
    /\ clock' = clock + 1
    /\ UNCHANGED <<storeUp, tableExists, rows, nextId, openConns, bootVars,
                   workerVars, issued, rtVars>>

\* ------------------------------------------------------------ specifications

Startup == CreateTableConnect \/ CreateTableExecute \/ CreateTableFinally

Request(w, payloads) ==
    \/ \E data \in payloads : BookBegin(w, data)
    \/ BookExecute(w)
    \/ BookCommit(w)
    \/ ListBegin(w)
    \/ ListExecute(w)
    \/ HealthCheck(w)
    \/ Home(w)
    \/ Finally(w)
    \/ Deliver(w)

\* One worker, every complete payload of the model.
Next ==
    \/ Startup
    \/ Request("w1", Payloads)
    \/ StoreFlip
    \/ Tick

Spec == Init /\ [][Next]_vars

\* One worker, every payload that lacks keys.
NextValidation ==
    \/ Startup
    \/ Request("w1", ValidationPayloads)
    \/ StoreFlip
    \/ Tick

SpecValidation == Init /\ [][NextValidation]_vars

\* Two workers interleaved at every store access.
NextConc ==
    \/ Startup
    \/ \E w \in Workers : Request(w, ConcPayloads)
    \/ StoreFlip
    \/ Tick

SpecConc == Init /\ [][NextConc]_vars

\* The seat round trip: the join of add_booking, then the split of get_bookings.
InitSeats ==
    /\ storeUp = TRUE
    /\ tableExists = TRUE
    /\ rows = <<>>
    /\ nextId = 1
    /\ clock = 0
    /\ openConns = 0
    /\ boot = "serving"
    /\ bootLog = {}
    /\ pc = [w \in Workers |-> "idle"]
    /\ req = [w \in Workers |-> NoReq]
    /\ tx = [w \in Workers |-> <<>>]
    /\ attempts = [w \in Workers |-> 0]
    /\ resp = [w \in Workers |-> NoResp]
    /\ issued = <<>>
    /\ rtPc = "in"
    /\ rtIn \in SeatLists
    /\ rtText = <<>>
    /\ rtOut = <<>>

RtJoin ==
    /\ rtPc = "in"
    /\ rtText' = SeatsStr(JList(rtIn))
    /\ rtPc' = "stored"
    /\ UNCHANGED <<storeVars, openConns, bootVars, workerVars, issued, rtIn, rtOut>>

RtSplit ==
    /\ rtPc = "stored"
    /\ rtOut' = SeatsList(rtText)
    /\ rtPc' = "out"
    /\ UNCHANGED <<storeVars, openConns, bootVars, workerVars, issued, rtIn, rtText>>

NextSeats == RtJoin \/ RtSplit

SpecSeats == InitSeats /\ [][NextSeats]_vars

\* ------------------------------------------------------------------ claims

IsBook(w) == req[w].kind = "book"
Complete(data) == DOMAIN data = Fields
Connfail == Resp(500, "connfail", "", 0, NoData, <<>>)
DbError == Resp(500, "dberror", "", 0, NoData, <<>>)

\* The handler of w returns in this step.
Returns(w) == pc[w] # "done" /\ pc'[w] = "done"
\* The handler of w builds its response in this step.
Responds(w) == resp[w] = NoResp /\ resp'[w] # NoResp

\* The key of the fixed order that a payload lacks first.
IsFirstMissing(data, f) ==
    \E i \in 1..Len(RequiredFields) :
        /\ RequiredFields[i] = f
        /\ f \notin DOMAIN data
        /\ \A j \in 1..(i - 1) : RequiredFields[j] \in DOMAIN data

\* C1: a POST /book payload lacking a required key is answered 400 with
\* "Missing field: <f>", f the first lacking key of the fixed order; only an
\* absent key is missing, a key holding null is not.
C1_MissingFieldNamed ==
    \A w \in Workers :
        (pc[w] = "done" /\ IsBook(w)) =>
            /\ ~Complete(req[w].data) =>
                  /\ resp[w].status = 400
                  /\ resp[w].tag = "missing"
                  /\ IsFirstMissing(req[w].data, resp[w].field)
            /\ Complete(req[w].data) => resp[w].status # 400

\* A payload that lacks two keys and holds nulls for the rest is answered
\* with the earlier of the two.
C1_Witness ==
    /\ pc["w1"] = "done" /\ IsBook("w1")
    /\ DOMAIN req["w1"].data = Fields \ {"phone_no", "class"}
    /\ req["w1"].data["name"] = JNull
    /\ resp["w1"] = Resp(400, "missing", "phone_no", 0, NoData, <<>>)

\* The payloads whose values the table keeps as they are: the text values are
\* strings, no_of_passengers is an integer, selected_seats is a list of
\* comma-free strings other than the list holding only the empty string.
CommaFree(seat) == \A i \in 1..Len(seat) : seat[i] # ","
WellTyped(data) ==
    /\ Complete(data)
    /\ \A f \in TextFields : data[f].t = "str"
    /\ data["no_of_passengers"].t = "int"
    /\ data["selected_seats"].t = "list"
    /\ \A i \in 1..Len(data["selected_seats"].l) : CommaFree(data["selected_seats"].l[i])
    /\ data["selected_seats"].l # << <<>> >>

\* A listing holds the row of booking b with every field equal to the input.
ListsAsSubmitted(listing, b) ==
    \E i \in 1..Len(listing) :
        /\ listing[i].id = b.id
        /\ \A f \in Fields : listing[i].col[f] = b.data[f]

\* C2 as stated: every payload holding the nine keys, sent over a connection
\* the store accepted and whose statement it did not reject, is answered 201,
\* and every later listing holds its row with fields equal to the input.
C2_AnyCompletePayloadRoundTrips ==
    [][\A w \in Workers :
          /\ (Returns(w) /\ IsBook(w) /\ Complete(req[w].data)
                /\ resp'[w] \notin {Connfail, DbError})
                => resp'[w].status = 201
          /\ (Responds(w) /\ resp'[w].tag = "bookings")
                => \A k \in 1..Len(issued) :
                      ListsAsSubmitted(resp'[w].bookings, issued[k])]_vars

\* C2 amended: the same for the payloads whose values are of the column's
\* type and whose seat list the comma-joined text can hold.
C2_WellTypedPayloadRoundTrips ==
    [][\A w \in Workers :
          /\ (Returns(w) /\ IsBook(w) /\ WellTyped(req[w].data)
                /\ resp'[w] \notin {Connfail, DbError})
                => /\ resp'[w].status = 201
                   /\ resp'[w].tag = "created"
                   /\ resp'[w].data = req[w].data
                   /\ \E k \in 1..Len(issued) : issued[k].id = resp'[w].id
          /\ (Responds(w) /\ resp'[w].tag = "bookings")
                => \A k \in 1..Len(issued) :
                      WellTyped(issued[k].data)
                         => ListsAsSubmitted(resp'[w].bookings, issued[k])]_vars

\* A listing that returns the example booking, both seats, as submitted.
C2_Witness ==
    /\ resp["w1"].tag = "bookings"
    /\ \E k \in 1..Len(issued) :
          /\ issued[k].data = ExamplePayload
          /\ ListsAsSubmitted(resp["w1"].bookings, issued[k])

\* C3 as stated: every non-empty list of comma-free seat strings comes back
\* from join-then-split as it went in, and the empty list comes back empty.
C3_RoundTrip ==
    rtPc = "out" =>
        /\ (rtIn # <<>> /\ \A i \in 1..Len(rtIn) : CommaFree(rtIn[i])) => rtOut = rtIn
        /\ rtIn = <<>> => rtOut = <<>>

\* C3 amended: the list holding only the empty string joins to the empty
\* text, as the empty list does, and comes back as the empty list; every
\* other non-empty list of comma-free strings comes back as it went in.
C3_RoundTripButLoneEmptySeat ==
    rtPc = "out" =>
        /\ (rtIn # <<>> /\ rtIn # << <<>> >> /\ \A i \in 1..Len(rtIn) : CommaFree(rtIn[i]))
              => rtOut = rtIn
        /\ rtIn \in {<<>>, << <<>> >>} => rtOut = <<>>

\* Two seats, the first of them empty, come back as they went in.
C3_Witness ==
    /\ rtPc = "out"
    /\ rtIn = << <<>>, <<"A", "A">> >>
    /\ rtText = <<",", "A", "A">>
    /\ rtOut = rtIn

\* C4 as stated: with one worker every insert ends before the next begins,
\* and ids rise with the inserts, so a listing goes down the ids.
C4_NewestFirst ==
    \A w \in Workers :
        resp[w].tag = "bookings" =>
            \A i, j \in 1..Len(resp[w].bookings) :
                i < j => resp[w].bookings[i].id > resp[w].bookings[j].id

\* C4 amended: of two bookings the one with the later created_at is listed
\* first; created_at counts whole seconds, and bookings inserted within one
\* second are listed in either order.
C4_LaterSecondFirst ==
    \A w \in Workers :
        resp[w].tag = "bookings" =>
            \A i, j \in 1..Len(resp[w].bookings) :
                resp[w].bookings[i].created_at > resp[w].bookings[j].created_at
                    => i < j

\* A listing of two bookings made in different seconds.
C4_Witness ==
    /\ resp["w1"].tag = "bookings"
    /\ Len(resp["w1"].bookings) = 2
    /\ resp["w1"].bookings[1].id = 2
    /\ resp["w1"].bookings[1].created_at > resp["w1"].bookings[2].created_at

\* C5: whichever way create_table fails, the failure is printed, no
\* exception leaves create_table, and the process comes to serve requests.
C5_StartupFailureSwallowed ==
    (boot \in {"serving", "crashed"} /\ bootLog \cap {MsgConnFailed, MsgCreateError} # {})
        => boot = "serving"

\* Operations that hold a connection at this point of their code.
Holding ==
    Cardinality({w \in Workers : pc[w] \in {"book_try", "book_commit", "list_try", "finally"}})
        + (IF boot \in {"create", "finally"} THEN 1 ELSE 0)

\* C6: the connections open are those of the operations still running: an
\* operation that has ended, on whatever path, has closed its own, and with
\* no operation running none is open.
C6_ConnectionsClosed == openConns = Holding

\* A request whose int() raised has ended, and no connection is open.
C6_Witness ==
    /\ \A w \in Workers : pc[w] \in {"idle", "done"}
    /\ resp["w1"].tag = "exception"
    /\ resp["w2"].status = 201
    /\ openConns = 0

\* The values of the model that int() refuses.
NotIntegers == {JStr(<<"A">>), JNull}
BadCount(w) ==
    /\ IsBook(w) /\ Complete(req[w].data)
    /\ req[w].data["no_of_passengers"] \in NotIntegers

\* C7 as stated: with the connection made, a no_of_passengers that int()
\* refuses ends in the 500 of the database-error branch.
C7_CoercionIsDatabaseError ==
    \A w \in Workers :
        (pc[w] = "done" /\ BadCount(w) /\ resp[w] # Connfail) => resp[w] = DbError

\* C7 amended: the exception of int() is not a store error, passes the
\* except branch and leaves add_booking uncaught after the finally block,
\* with no JSON body of the handler; no statement was sent, no id taken and
\* no row inserted.  With the store unreachable the handler has returned the
\* connection-failed 500 before int() is called.
C7_CoercionLeavesHandler ==
    [][\A w \in Workers :
          /\ (Returns(w) /\ BadCount(w)) =>
                \/ resp'[w] = Connfail
                \/ /\ resp'[w].tag = "exception"
                   /\ resp'[w].field \in {"ValueError", "TypeError"}
                   /\ resp'[w].field = "TypeError"
                         <=> req[w].data["no_of_passengers"] = JNull
          /\ BadCount(w) => (rows' = rows /\ nextId' = nextId /\ tx'[w] = <<>>)]_vars

\* A request with the count "A" has ended in ValueError.
C7_Witness ==
    /\ pc["w1"] = "done" /\ BadCount("w1")
    /\ req["w1"].data["no_of_passengers"] = JStr(<<"A">>)
    /\ resp["w1"] = Resp(500, "exception", "ValueError", 0, NoData, <<>>)
    /\ rows = <<>>

\* C8: POST /book with the nine keys and GET /bookings answer 500 "Database
\* connection failed" when the store refuses the connection, after one
\* attempt and with the table as it was; they answer 500 "Database error"
\* when the store rejects the statement, and then no row is added.
C8_StoreErrors ==
    [][\A w \in Workers :
          /\ (pc[w] = "idle" /\ pc'[w] # "idle" /\ ~storeUp
                /\ req'[w].kind \in {"book", "list"}
                /\ (req'[w].kind = "book" => Complete(req'[w].data)))
                => /\ resp'[w] = Connfail
                   /\ pc'[w] = "done"
                   /\ attempts'[w] = 1
                   /\ rows' = rows /\ nextId' = nextId /\ openConns' = openConns
          /\ (pc[w] = "book_try" /\ pc'[w] # "book_try"
                /\ req[w].data["no_of_passengers"] \notin NotIntegers
                /\ (~tableExists \/ \E f \in TextFields : req[w].data[f] = JNull))
                => resp'[w] = DbError
          /\ (pc[w] = "list_try" /\ pc'[w] # "list_try" /\ ~tableExists)
                => resp'[w] = DbError
          /\ (Responds(w) /\ resp'[w] = DbError)
                => /\ rows' = rows
                   /\ pc[w] \in {"book_try", "book_commit", "list_try"}
                   /\ attempts[w] = 1]_vars

\* The store rejected the INSERT of a booking whose name is null.
C8_Witness ==
    /\ pc["w1"] = "done" /\ IsBook("w1") /\ Complete(req["w1"].data)
    /\ req["w1"].data["name"] = JNull
    /\ req["w1"].data["no_of_passengers"] = JInt(2)
    /\ tableExists
    /\ resp["w1"] = DbError

\* C9: under every interleaving the table only grows at its end; a row is
\* added only by a POST /book in the step that makes its 201, one row, with
\* the id the 201 returns, an id no other row holds and no other 201 returned.
C9_AppendOnly ==
    [][/\ Len(rows') >= Len(rows)
       /\ \A i \in 1..Len(rows) : rows'[i] = rows[i]
       /\ rows' # rows =>
             \E w \in Workers :
                /\ IsBook(w) /\ Responds(w) /\ resp'[w].status = 201
                /\ Len(rows') = Len(rows) + 1
                /\ rows'[Len(rows')].id = resp'[w].id
       /\ \A w \in Workers :
             (Responds(w) /\ resp'[w].status = 201) =>
                /\ IsBook(w)
                /\ Len(rows') = Len(rows) + 1
                /\ rows'[Len(rows')].id = resp'[w].id
                /\ \A i \in 1..Len(rows) : rows[i].id # resp'[w].id
                /\ \A k \in 1..Len(issued) : issued[k].id # resp'[w].id
                /\ \A v \in Workers \ {w} : resp[v].status = 201 => resp[v].id # resp'[w].id]_vars

\* Two workers hold the 201s of two bookings whose inserts overlapped: the
\* one that took the later id committed first.
C9_Witness ==
    /\ resp["w1"].status = 201 /\ resp["w2"].status = 201
    /\ Len(rows) = 2
    /\ rows[1].id = 2 /\ rows[2].id = 1

\* C10: a payload lacking a key is answered 400 before any store access:
\* also with the store unreachable, without a connection attempted or
\* opened, and with the table and its counter as they were.
C10_ValidationBeforeStore ==
    [][\A w \in Workers :
          (pc[w] = "idle" /\ pc'[w] # "idle" /\ req'[w].kind = "book"
             /\ ~Complete(req'[w].data))
             => /\ resp'[w].status = 400
                /\ pc'[w] = "done"
                /\ attempts'[w] = 0
                /\ openConns' = openConns
                /\ rows' = rows /\ nextId' = nextId]_vars

\* The 400 for the empty object, with the store unreachable and no attempt.
C10_Witness ==
    /\ pc["w1"] = "done" /\ IsBook("w1")
    /\ DOMAIN req["w1"].data = {}
    /\ ~storeUp
    /\ attempts["w1"] = 0
    /\ openConns = 0
    /\ resp["w1"] = Resp(400, "missing", "name", 0, NoData, <<>>)

====
